---------------------------- MODULE Spec2Model ----------------------------
(***************************************************************************)
(* Model of the two batch scripts of felt-dataset:                         *)
(*   - "0. remove video only file/remove_video_only_file.py": the cleanup  *)
(*     script (specification SpecCleanup);                                 *)
(*   - "4. visualize result/ActionUnit/draw_AU(song).py": the AU-video job *)
(*     (specification Spec).                                               *)
(* File names and directory names are sequences of one-character strings,  *)
(* so that formatting, globbing and splitext are computed, not assumed.    *)
(***************************************************************************)
EXTENDS Integers, Sequences, FiniteSets, TLC

VARIABLES
    \* ---- cleanup script --------------------------------------------------
    files,            \* the file system: set of [dir |-> <<component,...>>, name |-> chars]
    initial_files,    \* the file system when the script started (history)
    rm_pc,            \* "idle" | "for" | "remove" | "done" | "aborted"
    rm_i,             \* loop variable i of range(1, 25)
    files_to_delete,  \* result of glob.glob for the current actor
    delete_counter,   \* running counter
    reported,         \* the count printed by the last line, or -1 before it
    \* ---- AU-video job: configuration and input ----------------------------
    isSong,           \* module constant isSong (song mode skips actor 18)
    num_processes,    \* module constant num_processes (size of the pool)
    csv_dirs,         \* input tree: existing actor folder |-> os.listdir of it
    csv_rows,         \* number of rows (frames) of the AU table read_feat returns
    csv_bad,          \* the rows for which plot_face raises ValueError
    \* ---- AU-video job: output tree ----------------------------------------
    video_dirs,       \* existing output actor folders
    video_files,      \* existing output files: path |-> [frames, closed]
    \* ---- AU-video job: main() and the pool --------------------------------
    run,              \* how many times the job has been started
    main_pc,          \* "idle" | "enum" | "map" | "done" | "raised" | "crashed"
    i,                \* loop variable of main()
    tasks,            \* the task list: sequence of [csv, out]
    st,               \* per task: [pc, figs, error_frames, written, writer, raised]
    queue,            \* the pool's task queue: chunks (sequences of task indices) not yet taken
    cur,              \* per worker: the rest of the chunk it is running (head = current task)
    number_left,      \* MapResult._number_left: chunks not yet reported
    success,          \* MapResult._success
    faults            \* exceptions the environment has injected so far (bounded by MaxFaults)

rm_vars == <<files, initial_files, rm_pc, rm_i, files_to_delete, delete_counter, reported>>
cfg_vars == <<isSong, num_processes, csv_dirs, csv_rows, csv_bad>>
out_vars == <<video_dirs, video_files>>
pool_vars == <<queue, cur, number_left, success>>
job_vars == <<cfg_vars, out_vars, run, main_pc, i, tasks, st, pool_vars, faults>>
vars == <<rm_vars, job_vars>>

(***************************************************************************)
(* Text helpers                                                            *)
(***************************************************************************)
Digits == <<"0", "1", "2", "3", "4", "5", "6", "7", "8", "9">>

\* f"{i:02}": two digits, zero padded (i < 100 in every use)
Format02(n) == <<Digits[(n \div 10) + 1], Digits[(n % 10) + 1]>>

\* f"Actor_{i:02}"
folder_name(n) == <<"A", "c", "t", "o", "r", "_">> \o Format02(n)

\* fnmatch of a name against a pattern in which "*" matches any run of characters
RECURSIVE fnmatch(_, _)
fnmatch(pat, s) ==
    IF pat = <<>> THEN s = <<>>
    ELSE IF Head(pat) = "*"
         THEN \/ fnmatch(Tail(pat), s)
              \/ (s # <<>> /\ fnmatch(pat, Tail(s)))
         ELSE s # <<>> /\ Head(s) = Head(pat) /\ fnmatch(Tail(pat), Tail(s))

(***************************************************************************)
(* Cleanup script                                                          *)
(***************************************************************************)
RmFirstActor == 1
RmEndActor == 25

\* variant: the pattern without its extension, "02-*"
file_pattern_any_ext == <<"0", "2", "-", "*">>

\* "02-*.mp4"
file_pattern_name == <<"0", "2", "-", "*", ".", "m", "p", "4">>

\* glob.glob(os.path.join(RAVDESS_path, folder_name, "02-*.mp4")): the entries
\* directly in the actor directory whose name matches the pattern
Glob(fs, n) == {f \in fs : f.dir = <<folder_name(n)>> /\ fnmatch(file_pattern_name, f.name)}

N_02a_mp4 == <<"0", "2", "-", "a", ".", "m", "p", "4">>
N_01b_mp4 == <<"0", "1", "-", "b", ".", "m", "p", "4">>
N_02c_mp4 == <<"0", "2", "-", "c", ".", "m", "p", "4">>
N_02a_avi == <<"0", "2", "-", "a", ".", "a", "v", "i">>
N_02_mp4  == <<"0", "2", ".", "m", "p", "4">>
N_02d_mp4 == <<"0", "2", "-", ".", "m", "p", "4">>

\* The files a dataset tree may hold in the model: the three of the spec's
\* example, a non-mp4, names that nearly match, and files outside Actor_01..24
\* (the root, Actor_25, an unpadded Actor_1, a nested directory).
FileUniverse ==
    { [dir |-> <<folder_name(1)>>, name |-> N_02a_mp4],
      [dir |-> <<folder_name(1)>>, name |-> N_01b_mp4],
      [dir |-> <<folder_name(1)>>, name |-> N_02c_mp4],
      [dir |-> <<folder_name(12)>>, name |-> N_02a_avi],
      [dir |-> <<folder_name(12)>>, name |-> N_02_mp4],
      [dir |-> <<folder_name(24)>>, name |-> N_02d_mp4],
      [dir |-> <<folder_name(25)>>, name |-> N_02a_mp4],
      [dir |-> <<>>, name |-> N_02a_mp4],
      [dir |-> <<<<"A", "c", "t", "o", "r", "_", "1">>>>, name |-> N_02a_mp4],
      [dir |-> <<folder_name(24), <<"s", "u", "b">>>>, name |-> N_02c_mp4] }

RmIdle ==
    /\ files = {} /\ initial_files = {} /\ rm_pc = "idle" /\ rm_i = 0
    /\ files_to_delete = {} /\ delete_counter = 0 /\ reported = -1

RmInit ==
    /\ files \in SUBSET FileUniverse
    /\ initial_files = files
    /\ rm_pc = "for"
    /\ rm_i = RmFirstActor
    /\ files_to_delete = {}
    /\ delete_counter = 0
    /\ reported = -1

\* lines 9-16: one iteration header of "for i in range(1, 25)" up to the glob
RmGlob ==
    /\ rm_pc = "for"
    /\ rm_i < RmEndActor
    /\ files_to_delete' = Glob(files, rm_i)
    /\ rm_pc' = "remove"
    /\ UNCHANGED <<files, initial_files, rm_i, delete_counter, reported, job_vars>>

\* lines 19-22: os.remove(file); delete_counter += 1 (glob order is arbitrary)
RmRemove ==
    /\ rm_pc = "remove"
    /\ \E f \in files_to_delete :
        /\ files' = files \ {f}
        /\ files_to_delete' = files_to_delete \ {f}
        /\ delete_counter' = delete_counter + 1
    /\ UNCHANGED <<initial_files, rm_pc, rm_i, reported, job_vars>>

\* line 20: os.remove raises (permission, file in use): nothing is caught, the
\* script ends with a traceback and prints no count
RmRemoveFails ==
    /\ rm_pc = "remove"
    /\ files_to_delete # {}
    /\ rm_pc' = "aborted"
    /\ UNCHANGED <<files, initial_files, rm_i, files_to_delete, delete_counter, reported, job_vars>>

\* the inner loop is exhausted: next i
RmNextActor ==
    /\ rm_pc = "remove"
    /\ files_to_delete = {}
    /\ rm_i' = rm_i + 1
    /\ rm_pc' = "for"
    /\ UNCHANGED <<files, initial_files, files_to_delete, delete_counter, reported, job_vars>>

\* line 24: print(f"{delete_counter} files has been deleted")
RmReport ==
    /\ rm_pc = "for"
    /\ rm_i >= RmEndActor
    /\ reported' = delete_counter
    /\ rm_pc' = "done"
    /\ UNCHANGED <<files, initial_files, rm_i, files_to_delete, delete_counter, job_vars>>

RmNext == RmGlob \/ RmRemove \/ RmRemoveFails \/ RmNextActor \/ RmReport

(***************************************************************************)
(* AU-video job: configuration, paths, pure helpers                        *)
(***************************************************************************)
MaxActors == 2      \* actors in the configured range
MaxFrames == 3      \* rows of a CSV (specification Spec)
JobFrames == 1      \* rows of a CSV (specification SpecChunks)
MaxProcesses == 2   \* largest pool size tried
MaxRuns == 2        \* how often the job is started
MaxFaults == 1      \* exceptions of the external calls over all runs

\* line 97: the actor song mode leaves out
SongActor == 18

\* lines 19-20: the configured range(start_actor_num, end_actor_num), here a
\* window of MaxActors actors that contains the actor song mode leaves out
start_actor_num == SongActor - 1
end_actor_num == start_actor_num + MaxActors

N_a_csv == <<"a", ".", "c", "s", "v">>
N_a_txt == <<"a", ".", "t", "x", "t">>
N_b_csv == <<"b", ".", "c", "s", "v">>
N_c_csv == <<"c", ".", "c", "s", "v">>

\* what os.listdir may find in an input actor folder: files whose output
\* names collide (specification Spec), CSV files only (specification SpecChunks)
MixedNames == {N_a_csv, N_a_txt}
CsvNames == {N_a_csv, N_b_csv, N_c_csv}

Max(S) == CHOOSE x \in S : \A y \in S : y <= x

\* os.path.splitext(name)[0]: cut at the last dot, unless only dots precede it
splitext_root(name) ==
    LET dots == {k \in 1..Len(name) : name[k] = "."}
        last == IF dots = {} THEN 0 ELSE Max(dots)
    IN  IF last > 0 /\ \E k \in 1..(last - 1) : name[k] # "."
        THEN SubSeq(name, 1, last - 1)
        ELSE name

\* lines 108-112: the task of one listed file
MakeTask(folder, file_name) ==
    [csv |-> [dir |-> <<folder>>, name |-> file_name],
     out |-> [dir |-> <<folder>>, name |-> splitext_root(file_name) \o <<".", "m", "p", "4">>]]

\* what an input actor folder may hold, as os.listdir returns it: the names of
\* a set of files in some order (the order of an unchanged folder is stable)
Listings(names) ==
    UNION {{s \in [1..Cardinality(S) -> S] : \A x \in S : \E k \in 1..Cardinality(S) : s[k] = x}
           : S \in SUBSET names}

\* variant: the loop ends at the first frame that raises ValueError
RECURSIVE PlotLoopStops(_, _, _, _, _)
PlotLoopStops(frame, total_frames, bad, figs, error_frames) ==
    IF frame >= total_frames
    THEN [figs |-> figs, error_frames |-> error_frames]
    ELSE IF frame \in bad
         THEN [figs |-> figs, error_frames |-> Append(error_frames, frame)]
         ELSE PlotLoopStops(frame + 1, total_frames, bad, Append(figs, frame), error_frames)

\* lines 39-57: generate_au_plot_figures on a table of n rows of which the rows
\* in bad make plot_face raise ValueError; a figure is named by its frame index
RECURSIVE PlotLoop(_, _, _, _, _)
PlotLoop(frame, total_frames, bad, figs, error_frames) ==
    IF frame >= total_frames
    THEN [figs |-> figs, error_frames |-> error_frames]
    ELSE IF frame \in bad
         THEN PlotLoop(frame + 1, total_frames, bad, figs, Append(error_frames, frame))
         ELSE PlotLoop(frame + 1, total_frames, bad, Append(figs, frame), error_frames)

\* variant: range(total_frames + 1)
PlotOneTooMany(total_frames, bad) == PlotLoop(0, total_frames + 1, bad, <<>>, <<>>)

generate_au_plot_figures(total_frames, bad) == PlotLoop(0, total_frames, bad, <<>>, <<>>)

\* multiprocessing.Pool._map_async: the default chunksize of pool.map
Chunksize(len, nproc) ==
    IF len = 0 THEN 0
    ELSE (len \div (nproc * 4)) + (IF len % (nproc * 4) # 0 THEN 1 ELSE 0)

\* Pool._get_tasks: consecutive slices of size task indices first..len
RECURSIVE GetTasks(_, _, _)
GetTasks(first, len, size) ==
    IF first > len \/ size = 0 THEN <<>>
    ELSE <<[k \in 1..(IF first + size - 1 <= len THEN size ELSE len - first + 1)
             |-> first + k - 1]>>
         \o GetTasks(first + size, len, size)

NewTaskState ==
    [pc |-> "pending", figs |-> <<>>, error_frames |-> <<>>, written |-> <<>>,
     writer |-> "none", raised |-> "none"]

Workers == 1..MaxProcesses

JobIdle ==
    /\ isSong = FALSE /\ num_processes = 0 /\ csv_dirs = <<>> /\ csv_rows = 0
    /\ csv_bad = {} /\ video_dirs = {} /\ video_files = <<>> /\ run = 0
    /\ main_pc = "idle" /\ i = 0 /\ tasks = <<>> /\ st = <<>> /\ queue = <<>>
    /\ cur = <<>> /\ number_left = 0 /\ success = TRUE /\ faults = 0

ActorFolders == {folder_name(a) : a \in start_actor_num..(end_actor_num - 1)}

\* the state when the job is first started: a configuration with a pool size
\* in procs, an input tree whose present actor folders hold files named in
\* names, a table whose number of rows is in rows, and an empty output tree
JobInit(names, rows, procs) ==
    /\ isSong \in BOOLEAN
    /\ num_processes \in procs
    /\ \E present \in SUBSET ActorFolders : csv_dirs \in [present -> Listings(names)]
    /\ csv_rows \in rows
    /\ csv_bad \in SUBSET (0..(csv_rows - 1))
    /\ video_dirs = {}
    /\ video_files = <<>>
    /\ run = 1
    /\ main_pc = "enum"
    /\ i = start_actor_num
    /\ tasks = <<>>
    /\ st = <<>>
    /\ queue = <<>>
    /\ cur = [w \in Workers |-> <<>>]
    /\ number_left = 0
    /\ success = TRUE
    /\ faults = 0

(***************************************************************************)
(* main(): task enumeration, lines 96-112                                  *)
(***************************************************************************)
\* variant: the folder is not created
MakeDirsNot(dirs, folder) == dirs

\* line 103-105: os.makedirs when the output actor folder is absent
MakeDirs(dirs, folder) == dirs \cup {folder}

EnumActor ==
    /\ main_pc = "enum"
    /\ i < end_actor_num
    /\ IF i = SongActor /\ isSong
       THEN /\ i' = i + 1
            /\ UNCHANGED <<video_dirs, main_pc, tasks, st>>
       ELSE /\ video_dirs' = MakeDirs(video_dirs, folder_name(i))
            /\ IF folder_name(i) \notin DOMAIN csv_dirs
               THEN \* os.listdir raises FileNotFoundError: main() ends
                    /\ main_pc' = "crashed"
                    /\ UNCHANGED <<i, tasks, st>>
               ELSE /\ LET names == csv_dirs[folder_name(i)] IN
                         /\ tasks' = tasks \o [k \in 1..Len(names) |->
                                                 MakeTask(folder_name(i), names[k])]
                         /\ st' = st \o [k \in 1..Len(names) |-> NewTaskState]
                    /\ i' = i + 1
                    /\ UNCHANGED main_pc
    /\ UNCHANGED <<rm_vars, cfg_vars, video_files, run, pool_vars, faults>>

(***************************************************************************)
(* The pool: pool.map(generate_au_video_from_csv, tasks), lines 114-115    *)
(***************************************************************************)
StartMap ==
    /\ main_pc = "enum"
    /\ i >= end_actor_num
    /\ main_pc' = "map"
    /\ queue' = GetTasks(1, Len(tasks), Chunksize(Len(tasks), num_processes))
    /\ number_left' = Len(queue')
    /\ success' = TRUE
    /\ UNCHANGED <<rm_vars, cfg_vars, out_vars, run, i, tasks, st, cur, faults>>

\* a free worker gets the next chunk from the task queue and calls the
\* function on its first task
TakeChunk(w) ==
    /\ main_pc = "map"
    /\ w <= num_processes
    /\ cur[w] = <<>>
    /\ queue # <<>>
    /\ cur' = [cur EXCEPT ![w] = Head(queue)]
    /\ queue' = Tail(queue)
    /\ st' = [st EXCEPT ![Head(Head(queue))].pc = "check"]
    /\ UNCHANGED <<rm_vars, cfg_vars, out_vars, run, main_pc, i, tasks, number_left, success, faults>>

\* mapstar: the call on task Head(cur[w]) returned; the next task of the chunk
\* is called, or the chunk's result is reported
Returned(w, newst) ==
    LET rest == Tail(cur[w]) IN
    /\ cur' = [cur EXCEPT ![w] = rest]
    /\ IF rest = <<>>
       THEN /\ st' = newst
            /\ number_left' = number_left - 1
       ELSE /\ st' = [newst EXCEPT ![Head(rest)].pc = "check"]
            /\ UNCHANGED number_left
    /\ UNCHANGED <<queue, success>>

\* mapstar: the call on task Head(cur[w]) raised; list(map(...)) unwinds, the
\* rest of the chunk is never called, the chunk is reported as failed
Raised(w, newst) ==
    /\ cur' = [cur EXCEPT ![w] = <<>>]
    /\ st' = [t \in DOMAIN newst |->
                IF \E k \in 2..Len(cur[w]) : cur[w][k] = t
                THEN [newst[t] EXCEPT !.pc = "abandoned"]
                ELSE newst[t]]
    /\ number_left' = number_left - 1
    /\ success' = FALSE
    /\ UNCHANGED queue

\* MapResult is ready once every chunk has reported; map returns or re-raises
\* the first exception, and the with-block ends the pool
MapReturns ==
    /\ main_pc = "map"
    /\ number_left = 0
    /\ main_pc' = IF success THEN "done" ELSE "raised"
    /\ UNCHANGED <<rm_vars, cfg_vars, out_vars, run, i, tasks, st, pool_vars, faults>>

\* the job is started again on the same trees
Rerun ==
    /\ main_pc \in {"done", "raised", "crashed"}
    /\ run < MaxRuns
    /\ run' = run + 1
    /\ main_pc' = "enum"
    /\ i' = start_actor_num
    /\ tasks' = <<>>
    /\ st' = <<>>
    /\ queue' = <<>>
    /\ cur' = [w \in Workers |-> <<>>]
    /\ number_left' = 0
    /\ success' = TRUE
    /\ UNCHANGED <<rm_vars, cfg_vars, out_vars, faults>>

(***************************************************************************)
(* generate_au_video_from_csv, lines 59-91, run by worker w on the task at *)
(* the head of its chunk                                                   *)
(***************************************************************************)
Current(w) == Head(cur[w])

At(w, pc) == main_pc = "map" /\ cur[w] # <<>> /\ st[Current(w)].pc = pc

\* variant: the check never finds the file
ExistsNever(path) == FALSE

\* os.path.exists(au_video_path)
Exists(path) == path \in DOMAIN video_files

\* lines 70-72: skip when the output exists, otherwise go on to read_feat
Check(w) ==
    /\ At(w, "check")
    /\ IF Exists(tasks[Current(w)].out)
       THEN /\ Returned(w, [st EXCEPT ![Current(w)].pc = "skipped"])
            /\ UNCHANGED <<rm_vars, cfg_vars, out_vars, run, main_pc, i, tasks, faults>>
       ELSE /\ st' = [st EXCEPT ![Current(w)].pc = "load"]
            /\ UNCHANGED <<rm_vars, cfg_vars, out_vars, run, main_pc, i, tasks, pool_vars, faults>>

\* line 74: read_feat returns the table
Load(w) ==
    /\ At(w, "load")
    /\ st' = [st EXCEPT ![Current(w)].pc = "plot"]
    /\ UNCHANGED <<rm_vars, cfg_vars, out_vars, run, main_pc, i, tasks, pool_vars, faults>>

\* line 77: figs, _ = generate_au_plot_figures(video_prediction); the error
\* list is logged at line 55
Plot(w) ==
    /\ At(w, "plot")
    /\ LET r == generate_au_plot_figures(csv_rows, csv_bad) IN
       st' = [st EXCEPT ![Current(w)].pc = "open",
                        ![Current(w)].figs = r.figs,
                        ![Current(w)].error_frames = r.error_frames]
    /\ UNCHANGED <<rm_vars, cfg_vars, out_vars, run, main_pc, i, tasks, pool_vars, faults>>

\* line 78: imageio.get_writer starts a new, empty video at the output path
Open(w) ==
    /\ At(w, "open")
    /\ video_files' = (tasks[Current(w)].out :> [frames |-> <<>>, closed |-> FALSE])
                      @@ video_files
    /\ st' = [st EXCEPT ![Current(w)].writer = "open",
                        ![Current(w)].pc = IF st[Current(w)].figs = <<>>
                                           THEN "close" ELSE "append"]
    /\ UNCHANGED <<rm_vars, cfg_vars, video_dirs, run, main_pc, i, tasks, pool_vars, faults>>

\* variant: the figures are taken from the end of the list
NextFigFromEnd(s) == s.figs[Len(s.figs) - Len(s.written)]

\* the figure the loop of line 81 hands to the writer next
NextFig(s) == s.figs[Len(s.written) + 1]

\* lines 81-88: one iteration of "for fig in figs": writer.append_data
AppendFrame(w) ==
    /\ At(w, "append")
    /\ LET t == Current(w)
           fig == NextFig(st[t])
           out == tasks[t].out
       IN  /\ video_files' = [video_files EXCEPT
                                 ![out].frames = Append(video_files[out].frames, fig)]
           /\ st' = [st EXCEPT ![t].written = Append(st[t].written, fig),
                               ![t].pc = IF Len(st[t].written) + 1 = Len(st[t].figs)
                                         THEN "close" ELSE "append"]
    /\ UNCHANGED <<rm_vars, cfg_vars, video_dirs, run, main_pc, i, tasks, pool_vars, faults>>

\* lines 90-91: writer.close() finalizes the video; 'Video saved' is logged
Close(w) ==
    /\ At(w, "close")
    /\ video_files' = [video_files EXCEPT ![tasks[Current(w)].out].closed = TRUE]
    /\ Returned(w, [st EXCEPT ![Current(w)].pc = "saved", ![Current(w)].writer = "closed"])
    /\ UNCHANGED <<rm_vars, cfg_vars, video_dirs, run, main_pc, i, tasks, faults>>

\* the calls of the function that may raise an exception nothing catches:
\* read_feat (74), plot_face with an error other than ValueError (48),
\* get_writer (78), append_data (86), close (90)
CanRaise(pc) ==
    \/ pc \in {"load", "open", "append", "close"}
    \/ pc = "plot" /\ csv_rows > 0

\* variant: the exception is caught and the call returns as if saved
AfterRaiseSwallowed(s) == [s EXCEPT !.pc = "saved", !.raised = s.pc]

\* what an uncaught exception at position pc does to the task
AfterRaise(s) == [s EXCEPT !.pc = "failed", !.raised = s.pc]

TaskRaises(w) ==
    /\ main_pc = "map"
    /\ cur[w] # <<>>
    /\ CanRaise(st[Current(w)].pc)
    /\ faults < MaxFaults
    /\ faults' = faults + 1
    /\ Raised(w, [st EXCEPT ![Current(w)] = AfterRaise(st[Current(w)])])
    /\ UNCHANGED <<rm_vars, cfg_vars, out_vars, run, main_pc, i, tasks>>

Next ==
    \/ EnumActor
    \/ StartMap
    \/ \E w \in Workers :
        \/ TakeChunk(w)
        \/ Check(w)
        \/ Load(w)
        \/ Plot(w)
        \/ Open(w)
        \/ AppendFrame(w)
        \/ Close(w)
        \/ TaskRaises(w)
    \/ MapReturns
    \/ Rerun

\* the job on tables of up to MaxFrames rows, with at most two files (whose
\* outputs collide) per actor folder and pools of up to MaxProcesses workers
Init == JobInit(MixedNames, 0..MaxFrames, 1..MaxProcesses) /\ RmIdle
Spec == Init /\ [][Next]_vars

\* the job on folders of up to three CSV files, enough for pool.map to cut the
\* task list into chunks of more than one task for a pool of one worker
InitChunks == JobInit(CsvNames, {JobFrames}, {1}) /\ RmIdle
SpecChunks == InitChunks /\ [][Next]_vars

InitCleanup == RmInit /\ JobIdle
SpecCleanup == InitCleanup /\ [][RmNext]_vars

(***************************************************************************)
(* Properties                                                              *)
(***************************************************************************)
\* the k-th smallest elements of a finite set of numbers, in ascending order
Ascending(S) ==
    [k \in 1..Cardinality(S) |-> CHOOSE x \in S : Cardinality({y \in S : y < x}) = k - 1]

\* the rows of the table that plot_face renders, in row order
RenderedRows == Ascending((0..(csv_rows - 1)) \ csv_bad)

IsPrefix(s, r) == Len(s) <= Len(r) /\ s = SubSeq(r, 1, Len(s))

\* no other task of the list writes to the output path of task t
Unshared(t) == \A u \in DOMAIN tasks : u # t => tasks[u].out # tasks[t].out

\* C1: a call that finds its output file present returns at once: the task is
\* skipped with nothing loaded, no writer, and the output tree left as it was,
\* in every run of the job.
C1_SkipWritesNothing ==
    [][\A t \in DOMAIN st :
         (/\ st[t].pc = "check"
          /\ tasks[t].out \in DOMAIN video_files
          /\ t \in DOMAIN st'
          /\ st'[t].pc # "check")
         => /\ st'[t] = [NewTaskState EXCEPT !.pc = "skipped"]
            /\ video_files' = video_files
            /\ video_dirs' = video_dirs]_vars

C1_Witness ==
    \E t \in DOMAIN st :
        /\ run > 1
        /\ st[t].pc = "skipped"
        /\ video_files[tasks[t].out].closed

\* C2: with N rows of which the rows E raise ValueError, every row is still
\* processed (rendered or recorded as an error), the logged error list is E,
\* no task fails unless an external call raised something else, and a task
\* that completes has written exactly N - |E| frames; the output file holds
\* exactly these frames when no other task shares its path.
C2_BadFramesSkipped ==
    \A t \in DOMAIN st :
        /\ faults = 0 => st[t].pc \notin {"failed", "abandoned"}
        /\ st[t].pc \in {"open", "append", "close", "saved"}
            => /\ st[t].error_frames = Ascending(csv_bad)
               /\ Len(st[t].figs) + Len(st[t].error_frames) = csv_rows
        /\ st[t].pc = "saved"
            => /\ Len(st[t].written) = csv_rows - Cardinality(csv_bad)
               /\ Unshared(t) =>
                    /\ Len(video_files[tasks[t].out].frames) = csv_rows - Cardinality(csv_bad)
                    /\ video_files[tasks[t].out].closed

C2_Witness ==
    \E t \in DOMAIN st :
        /\ csv_rows = 3
        /\ Cardinality(csv_bad) = 2
        /\ faults = 0
        /\ st[t].pc = "saved"
        /\ Len(video_files[tasks[t].out].frames) = 1

\* C3: the frames appended to a task's writer are always a prefix of the
\* successfully rendered rows in ascending row order, and all of them once the
\* task is saved: nothing is appended twice or out of order.
C3_FramesInRowOrder ==
    \A t \in DOMAIN st :
        /\ IsPrefix(st[t].written, RenderedRows)
        /\ \A j, k \in 1..Len(st[t].written) : j < k => st[t].written[j] < st[t].written[k]
        /\ st[t].pc = "saved" => st[t].written = RenderedRows
        /\ (Unshared(t) /\ st[t].writer # "none")
            => video_files[tasks[t].out].frames = st[t].written

C3_Witness ==
    \E t \in DOMAIN st :
        /\ csv_bad = {1}
        /\ st[t].pc = "saved"
        /\ st[t].written = <<0, 2>>

\* C6: for a table of 0 rows no frame is plotted or appended, so neither can
\* raise, and no task fails unless read_feat or the writer raised; a task that
\* completes has empty figure and error lists, has opened and closed its
\* writer, and leaves a video of 0 frames.
C6_EmptyCsv ==
    csv_rows = 0 =>
        \A t \in DOMAIN st :
            /\ faults = 0 => st[t].pc \notin {"failed", "abandoned"}
            /\ st[t].pc # "append"
            /\ st[t].raised \notin {"plot", "append"}
            /\ st[t].pc = "saved"
                => /\ st[t].figs = <<>>
                   /\ st[t].error_frames = <<>>
                   /\ st[t].written = <<>>
                   /\ st[t].writer = "closed"
                   /\ tasks[t].out \in DOMAIN video_files
                   /\ video_files[tasks[t].out].frames = <<>>

C6_Witness ==
    \E t \in DOMAIN st :
        /\ csv_rows = 0
        /\ faults = 0
        /\ st[t].pc = "saved"
        /\ video_files[tasks[t].out] = [frames |-> <<>>, closed |-> TRUE]

\* the number a two-digit directory suffix stands for, or -1
DigitValue(c) == IF \E k \in 0..9 : Digits[k + 1] = c
                 THEN CHOOSE k \in 0..9 : Digits[k + 1] = c
                 ELSE -1

\* a file directly in one of Actor_01 .. Actor_24 whose name begins with "02-"
\* and ends with ".mp4"
ShouldDelete(f) ==
    /\ Len(f.dir) = 1
    /\ Len(f.dir[1]) = 8
    /\ SubSeq(f.dir[1], 1, 6) = <<"A", "c", "t", "o", "r", "_">>
    /\ DigitValue(f.dir[1][7]) >= 0
    /\ DigitValue(f.dir[1][8]) >= 0
    /\ 10 * DigitValue(f.dir[1][7]) + DigitValue(f.dir[1][8]) \in 1..24
    /\ Len(f.name) >= 7
    /\ SubSeq(f.name, 1, 3) = <<"0", "2", "-">>
    /\ SubSeq(f.name, Len(f.name) - 3, Len(f.name)) = <<".", "m", "p", "4">>

\* C4: the cleanup script only ever removes "02-*.mp4" files lying directly in
\* Actor_01 .. Actor_24, its counter equals the number of files removed so far,
\* and when it reports, exactly those files are gone and the reported count is
\* their number.
C4_CleanupExact ==
    /\ files \subseteq initial_files
    /\ \A f \in initial_files \ files : ShouldDelete(f)
    /\ delete_counter = Cardinality(initial_files \ files)
    /\ rm_pc = "done"
        => /\ files = {f \in initial_files : ~ShouldDelete(f)}
           /\ reported = Cardinality({f \in initial_files : ShouldDelete(f)})

C4_Witness ==
    /\ rm_pc = "done"
    /\ initial_files = {[dir |-> <<folder_name(1)>>, name |-> N_02a_mp4],
                        [dir |-> <<folder_name(1)>>, name |-> N_01b_mp4],
                        [dir |-> <<folder_name(1)>>, name |-> N_02c_mp4]}
    /\ files = {[dir |-> <<folder_name(1)>>, name |-> N_01b_mp4]}
    /\ reported = 2

\* the actors whose folders one run of main() handles: the configured range
\* without actor 18 in song mode
Handled == {a \in start_actor_num..(end_actor_num - 1) : ~(a = SongActor /\ isSong)}

\* C5 as stated: once enumeration is over, however it ended, every actor of
\* the configured range has its output folder.
C5_EveryActorOfRange ==
    main_pc \in {"map", "done", "raised", "crashed"}
        => \A a \in start_actor_num..(end_actor_num - 1) : folder_name(a) \in video_dirs

\* C5, amended: every actor the enumeration has handled has its output folder
\* (also the one whose input folder turned out to be missing); once tasks are
\* dispatched all handled actors have theirs, and a task is only ever started,
\* and an output file only ever exists, inside an existing output folder.
C5_DirsBeforeDispatch ==
    /\ \A a \in Handled :
          (a < i \/ main_pc \in {"map", "done", "raised"} \/ (main_pc = "crashed" /\ a = i))
              => folder_name(a) \in video_dirs
    /\ \A t \in DOMAIN st :
          st[t].pc # "pending"
              => /\ main_pc \in {"map", "done", "raised"}
                 /\ tasks[t].out.dir[1] \in video_dirs
    /\ \A path \in DOMAIN video_files : path.dir[1] \in video_dirs

C5_Witness ==
    \E t \in DOMAIN st :
        /\ run = 1
        /\ st[t].writer = "open"
        /\ tasks[t].out.dir[1] \in video_dirs

\* C7: an exception of read_feat, of plot_face other than ValueError, or of
\* the writer puts the task in the failed state at the call that raised, with
\* no video closed by that step; a failed task stays failed for the rest of
\* the run (no retry, never saved), and no task carries an exception without
\* being failed.
C7_HardFailureIsFatal ==
    [][/\ \A t \in DOMAIN st' : st'[t].raised # "none" <=> st'[t].pc = "failed"
       /\ \A t \in DOMAIN st :
            (st[t].pc = "failed" /\ run' = run) => (t \in DOMAIN st' /\ st'[t] = st[t])
       /\ faults' # faults
            => /\ video_files' = video_files
               /\ \E t \in DOMAIN st :
                    /\ st[t].pc \in {"load", "plot", "open", "append", "close"}
                    /\ st'[t] = [st[t] EXCEPT !.pc = "failed", !.raised = st[t].pc]
                    /\ \A u \in DOMAIN st \ {t} : st'[u].pc \in {st[u].pc, "abandoned"}]_vars

C7_Witness ==
    \E t \in DOMAIN st :
        /\ main_pc = "raised"
        /\ st[t].pc = "failed"
        /\ st[t].raised = "append"
        /\ st[t].writer = "open"

\* C8 as stated: when pool.map is over, every task of the list has been run
\* by a worker (it was skipped, saved, or it failed itself).
C8_EveryTaskExecuted ==
    main_pc \in {"done", "raised"}
        => \A t \in DOMAIN st : st[t].pc \in {"skipped", "saved", "failed"}

\* task t has passed the exists-check and not yet left the function
InFlight(t) == st[t].pc \in {"load", "plot", "open", "append", "close"}

\* C9 as stated: no two tasks of the list have the same output path, and no
\* two workers are past the exists-check for, or hold a writer on, one file.
C9_NoSharedOutput ==
    \A t, u \in DOMAIN tasks :
        t # u => /\ tasks[t].out # tasks[u].out
                 /\ ~(InFlight(t) /\ InFlight(u) /\ tasks[t].out = tasks[u].out)

\* C10 as stated: whenever a task is skipped because its output exists, that
\* file is a closed video holding all rendered frames of the task's CSV.
C10_SkippedIsFinalized ==
    [][\A t \in DOMAIN st :
         (st[t].pc = "check" /\ t \in DOMAIN st' /\ st'[t].pc = "skipped")
         => /\ video_files[tasks[t].out].closed
            /\ video_files[tasks[t].out].frames = RenderedRows]_vars

=============================================================================
